---------------------------- MODULE Spec2Model ----------------------------
(***************************************************************************)
(* A model of the aligo command line (src/src/aligo/cli.py): path          *)
(* normalisation, read-only resolution, folder materialisation, the sync   *)
(* command and the exit codes of main, run against the in-memory remote    *)
(* store of src/tests/test_cli_sync_resolution.py (FakeAli).               *)
(*                                                                         *)
(* Strings are sequences of one-character strings, so that strip, prefix   *)
(* and substring tests are computed rather than assumed.                   *)
(***************************************************************************)
EXTENDS Integers, Sequences, FiniteSets, TLC

(***************************************************************************)
(* Bounds of the model.                                                    *)
(***************************************************************************)
MaxRuns == 1      \* invocations of main in a behaviour of Spec
MaxMats == 3      \* invocations of main in a behaviour of SpecMat
MaxRaces == 1     \* folders another actor creates in a behaviour
MaxPathLen == 4   \* characters of a path string given to _normalize_remote_path

(***************************************************************************)
(* Strings.                                                                *)
(***************************************************************************)
Digits == {"0", "1", "2", "3", "4", "5", "6", "7", "8", "9"}

StartsWith(s, p) ==
    /\ Len(s) >= Len(p)
    /\ SubSeq(s, 1, Len(p)) = p

Contains(s, sub) ==
    \E i \in 1..(Len(s) - Len(sub) + 1) : SubSeq(s, i, i + Len(sub) - 1) = sub

\* The characters for which str.isspace() holds.  A string is a sequence of
\* one-character strings; a character that cannot be written in a string
\* here is written by its code point, "U+00A0".
Whitespace ==
    {" ", "\t", "\n", "\r", "\f", "U+000B", "U+001C", "U+001D", "U+001E",
     "U+001F", "U+0085", "U+00A0", "U+1680", "U+2000", "U+2001", "U+2002",
     "U+2003", "U+2004", "U+2005", "U+2006", "U+2007", "U+2008", "U+2009",
     "U+200A", "U+2028", "U+2029", "U+202F", "U+205F", "U+3000"}

\* str.strip(): leading and trailing whitespace removed.
RECURSIVE LStrip(_)
LStrip(s) == IF s # <<>> /\ Head(s) \in Whitespace THEN LStrip(Tail(s)) ELSE s

RECURSIVE RStrip(_)
RStrip(s) ==
    IF s # <<>> /\ s[Len(s)] \in Whitespace
    THEN RStrip(SubSeq(s, 1, Len(s) - 1)) ELSE s

Strip(s) == RStrip(LStrip(s))

\* The non-empty pieces of s between separators "/".
RECURSIVE SplitAcc(_, _, _)
SplitAcc(s, cur, acc) ==
    IF s = <<>>
    THEN IF cur = <<>> THEN acc ELSE Append(acc, cur)
    ELSE IF Head(s) = "/"
         THEN SplitAcc(Tail(s), <<>>, IF cur = <<>> THEN acc ELSE Append(acc, cur))
         ELSE SplitAcc(Tail(s), Append(cur, Head(s)), acc)

Segments(path) == SplitAcc(path, <<>>, <<>>)

\* name is seg followed by "(", one or more digits and ")".
IsAutoRenamed(name, seg) ==
    /\ Len(name) >= Len(seg) + 3
    /\ StartsWith(name, seg)
    /\ name[Len(seg) + 1] = "("
    /\ name[Len(name)] = ")"
    /\ \A i \in (Len(seg) + 2)..(Len(name) - 1) : name[i] \in Digits

(***************************************************************************)
(* Errors and exceptions, as values.                                       *)
(***************************************************************************)
NoError == [kind |-> "none", path |-> <<>>, names |-> {}]

Raise(kind, path) == [kind |-> kind, path |-> path, names |-> {}]

RaiseNamed(kind, names) == [kind |-> kind, path |-> <<>>, names |-> names]

(***************************************************************************)
(* _normalize_remote_path: the normalised value, or the ValueError.        *)
(***************************************************************************)
normalize_remote_path_scheme_only(path) ==
    LET value == Strip(IF path = <<>> THEN <<"/">> ELSE path)
    IN  IF Contains(value, <<":", "/", "/">>)
        THEN [err |-> Raise("ValueError", value), value |-> value]
        ELSE IF ~StartsWith(value, <<"/">>)
        THEN [err |-> NoError, value |-> <<"/">> \o value]
        ELSE [err |-> NoError, value |-> value]

normalize_remote_path(path) ==
    LET value == Strip(IF path = <<>> THEN <<"/">> ELSE path)
    IN  IF Contains(value, <<":", "/", "/">>)
        THEN [err |-> Raise("ValueError", value), value |-> value]
        ELSE IF Contains(value, <<":">>) /\ ~StartsWith(value, <<"/">>)
        THEN [err |-> Raise("ValueError", value), value |-> value]
        ELSE IF ~StartsWith(value, <<"/">>)
        THEN [err |-> NoError, value |-> <<"/">> \o value]
        ELSE [err |-> NoError, value |-> value]

(***************************************************************************)
(* The remote store: FakeAli.  nodes lists every entry in creation order   *)
(* (children[parent] is the sub-list with that parent), seq is _seq and    *)
(* created is the log of create_folder calls.  The root has id 0.          *)
(***************************************************************************)
RootId == 0

\* An entry is a FakeFolder object; dict holds for the plain key/value copy
\* of it that a store in dict_mode hands out.
RootNode ==
    [file_id |-> RootId, name |-> <<"/">>, type |-> "folder", parent |-> -1,
     dict |-> FALSE]

NoneNode ==
    [file_id |-> -1, name |-> <<>>, type |-> "none", parent |-> -1, dict |-> FALSE]

Node(id, name, type, parent) ==
    [file_id |-> id, name |-> name, type |-> type, parent |-> parent,
     dict |-> FALSE]

\* {"file_id": ..., "name": ..., "type": ...} if self.dict_mode else the object
Handed(store, n) == [n EXCEPT !.dict = store.dict_mode]

\* FakeAli.children[parent_file_id], in insertion order.
Children(ns, parent_file_id) ==
    LET IsChild(n) == n.parent = parent_file_id
    IN  SelectSeq(ns, IsChild)

\* FakeAli.get_file_list(parent_file_id, type): refused unless type is
\* "folder"; otherwise everything under the parent, as objects or as dicts.
get_file_list_wrong_parent(store, parent_file_id, type) ==
    IF type # "folder"
    THEN [err |-> Raise("AssertionError", <<>>), list |-> <<>>]
    ELSE [err |-> NoError,
          list |-> [i \in 1..Len(Children(store.nodes, RootId)) |->
                       Handed(store, Children(store.nodes, RootId)[i])]]

get_file_list(store, parent_file_id, type) ==
    IF type # "folder"
    THEN [err |-> Raise("AssertionError", <<>>), list |-> <<>>]
    ELSE [err |-> NoError,
          list |-> [i \in 1..Len(Children(store.nodes, parent_file_id)) |->
                       Handed(store, Children(store.nodes, parent_file_id)[i])]]

\* FakeAli.add_folder with a fresh id from _new_id.
add_folder(store, parent_file_id, name) ==
    LET id == store.seq + 1
    IN  [store EXCEPT !.seq = id,
                      !.nodes = Append(@, Node(id, name, "folder", parent_file_id))]

\* FakeAli.create_folder: refuses an existing name under "refuse", otherwise
\* adds the folder under the name as given and logs the call.
create_folder(store, name, parent_file_id, check_name_mode) ==
    LET existing == {i \in 1..Len(store.nodes) :
                        /\ store.nodes[i].parent = parent_file_id
                        /\ store.nodes[i].name = name}
    IN  IF existing # {} /\ check_name_mode = "refuse"
        THEN [err |-> Raise("RuntimeError", name), store |-> store, folder |-> NoneNode]
        ELSE LET added == add_folder(store, parent_file_id, name)
             IN  [err |-> NoError,
                  store |-> [added EXCEPT !.created =
                                Append(@, <<parent_file_id, name, check_name_mode>>)],
                  folder |-> added.nodes[Len(added.nodes)]]

\* FakeAli.get_file: "root" is the root folder, any other id is looked up
\* and FileNotFoundError raised when no entry has it.
get_file(store, file_id) ==
    IF file_id = RootId THEN [err |-> NoError, node |-> Handed(store, RootNode)]
    ELSE LET hits == {i \in 1..Len(store.nodes) : store.nodes[i].file_id = file_id}
         IN  IF hits = {}
             THEN [err |-> Raise("FileNotFoundError", <<>>), node |-> NoneNode]
             ELSE [err |-> NoError,
                   node |-> Handed(store, store.nodes[CHOOSE i \in hits : TRUE])]

(***************************************************************************)
(* The collaborator's path lookups, which the command line calls:          *)
(* get_folder_by_path walks the segments top-down, matching folder names   *)
(* exactly; a missing segment ends the walk with None, or, with            *)
(* create_folder set, is created with the conflict policy it was given.    *)
(***************************************************************************)
\* The first entry of a listing whose name is exactly seg, or NoneNode.
FirstNamed(list, seg) ==
    LET hits == {i \in 1..Len(list) : list[i].name = seg}
    IN  IF hits = {} THEN NoneNode
        ELSE list[CHOOSE i \in hits : \A j \in hits : i <= j]

\* One level of get_folder_by_path: the folder named seg in the listing of
\* the parent asked with type="folder".
LookupLevel(store, parent_file_id, seg) ==
    LET IsFolder(n) == n.type = "folder"
    IN  FirstNamed(SelectSeq(get_file_list(store, parent_file_id, "folder").list,
                             IsFolder), seg)

\* get_folder_by_path(path, create_folder, check_name_mode) run without
\* interruption from the folder parent_file_id over the segments segs.
RECURSIVE get_folder_by_path(_, _, _, _, _)
get_folder_by_path(store, parent_file_id, segs, create, check_name_mode) ==
    IF segs = <<>>
    THEN LET got == get_file(store, parent_file_id)
         IN  [err |-> got.err, store |-> store, folder |-> got.node]
    ELSE LET found == LookupLevel(store, parent_file_id, Head(segs))
         IN  IF found # NoneNode
             THEN IF Len(segs) = 1
                  THEN [err |-> NoError, store |-> store, folder |-> found]
                  ELSE get_folder_by_path(store, found.file_id, Tail(segs),
                                          create, check_name_mode)
             ELSE IF ~create
             THEN [err |-> NoError, store |-> store, folder |-> NoneNode]
             ELSE LET made == create_folder(store, Head(segs), parent_file_id,
                                            check_name_mode)
                  IN  IF made.err # NoError THEN made
                      ELSE IF Len(segs) = 1 THEN made
                      ELSE get_folder_by_path(made.store, made.folder.file_id,
                                              Tail(segs), create, check_name_mode)

\* get_file_by_path(path): the entry of type "file" at the path, or NoneNode.
get_file_by_path(store, segs) ==
    IF segs = <<>> THEN NoneNode
    ELSE LET dir == get_folder_by_path(store, RootId,
                                       SubSeq(segs, 1, Len(segs) - 1),
                                       FALSE, "refuse").folder
             IsFile(n) == n.type = "file"
             hit == FirstNamed(SelectSeq(Children(store.nodes, dir.file_id), IsFile),
                               segs[Len(segs)])
         IN  IF dir = NoneNode \/ hit = NoneNode THEN NoneNode
             ELSE Handed(store, hit)

(***************************************************************************)
(* _resolve_remote_file: read-only resolution of a file or folder path.    *)
(***************************************************************************)
resolve_remote_file_with(store, remote_path, create) ==
    LET n == normalize_remote_path(remote_path)
    IN  IF n.err # NoError THEN [err |-> n.err, store |-> store, node |-> NoneNode]
        ELSE IF n.value = <<"/">>
        THEN [err |-> NoError, store |-> store, node |-> get_file(store, RootId).node]
        ELSE LET file_obj == get_file_by_path(store, Segments(n.value))
                 fb == get_folder_by_path(store, RootId, Segments(n.value),
                                          create, "refuse")
             IN  IF file_obj # NoneNode
                 THEN [err |-> NoError, store |-> store, node |-> file_obj]
                 ELSE IF fb.folder = NoneNode
                 THEN [err |-> Raise("FileNotFoundError", n.value),
                       store |-> fb.store, node |-> NoneNode]
                 ELSE [err |-> NoError, store |-> fb.store, node |-> fb.folder]

\* The fallback lookup made with creation enabled.
resolve_remote_file_creating(store, remote_path) ==
    resolve_remote_file_with(store, remote_path, TRUE)

resolve_remote_file(store, remote_path) ==
    resolve_remote_file_with(store, remote_path, FALSE)

(***************************************************************************)
(* _resolve_remote_folder, after get_folder_by_path has returned folder:   *)
(* the checks of the returned value.  dict_mode tells whether the          *)
(* collaborator hands listed entries back as plain key/value records; the  *)
(* attribute read folder.type fails on those.                              *)
(***************************************************************************)
resolve_remote_folder_inverted(path, folder) ==
    IF folder = NoneNode THEN Raise("FileNotFoundError", path)
    ELSE IF folder.dict THEN Raise("AttributeError", path)
    ELSE IF folder.type = "folder" THEN Raise("NotADirectoryError", path)
    ELSE NoError

resolve_remote_folder(path, folder) ==
    IF folder = NoneNode THEN Raise("FileNotFoundError", path)
    ELSE IF folder.dict THEN Raise("AttributeError", path)
    ELSE IF folder.type # "folder" THEN Raise("NotADirectoryError", path)
    ELSE NoError

\* _resolve_remote_folder(remote_path, create) run without interruption.
resolve_remote_folder_run(store, remote_path, create, check_name_mode) ==
    LET n == normalize_remote_path(remote_path)
    IN  IF n.err # NoError THEN [err |-> n.err, store |-> store, folder |-> NoneNode]
        ELSE IF n.value = <<"/">>
        THEN [err |-> NoError, store |-> store, folder |-> get_file(store, RootId).node]
        ELSE LET r == get_folder_by_path(store, RootId, Segments(n.value), create,
                                         check_name_mode)
                 e == IF r.err # NoError THEN r.err
                      ELSE resolve_remote_folder(n.value, r.folder)
             IN  [err |-> e, store |-> r.store,
                  folder |-> IF e = NoError THEN r.folder ELSE NoneNode]

(***************************************************************************)
(* main: the exit code for what the handler raised.  With --debug an       *)
(* error other than KeyboardInterrupt is printed and raised again.         *)
(***************************************************************************)
main_exit_swapped(exc, debug) ==
    IF exc.kind = "none" THEN [code |-> 0, escaped |-> FALSE]
    ELSE IF exc.kind = "KeyboardInterrupt" THEN [code |-> 1, escaped |-> debug]
    ELSE [code |-> 1, escaped |-> debug]

main_exit(exc, debug) ==
    IF exc.kind = "none" THEN [code |-> 0, escaped |-> FALSE]
    ELSE IF exc.kind = "KeyboardInterrupt" THEN [code |-> 130, escaped |-> FALSE]
    ELSE [code |-> 1, escaped |-> debug]

(***************************************************************************)
(* _cmd_sync: the arguments handed to sync_folder.                         *)
(***************************************************************************)
sync_call_follows_delete(a, remote_folder) ==
    [flag |-> IF a.mode = "local" THEN "True"
              ELSE IF a.mode = "remote" THEN "False" ELSE "None",
     remote_folder |-> remote_folder,
     ignore_content |-> a.ignore_content,
     follow_delete |-> TRUE]

sync_call(a, remote_folder) ==
    [flag |-> IF a.mode = "local" THEN "True"
              ELSE IF a.mode = "remote" THEN "False" ELSE "None",
     remote_folder |-> remote_folder,
     ignore_content |-> a.ignore_content,
     follow_delete |-> a.follow_delete]

(***************************************************************************)
(* sync_folder: the plan for one relative path, and the effect of one      *)
(* action.  An entry of a tree is 0 when absent, else its version          *)
(* (modification time and content together).                               *)
(***************************************************************************)
RelPaths == <<"f1", "f2">>

Versions == 0..2

PlanFor(call, l, r) ==
    IF l # 0 /\ r = 0
    THEN IF call.flag = "False" THEN "skip" ELSE "create-remote"
    ELSE IF l = 0 /\ r # 0
    THEN IF call.flag = "True"
         THEN IF call.follow_delete THEN "delete-remote" ELSE "skip"
         ELSE "create-local"
    ELSE IF l = r THEN "skip"
    ELSE IF call.flag = "True" THEN "update-remote"
    ELSE IF call.flag = "False" THEN "update-local"
    ELSE IF l > r THEN "update-remote" ELSE "update-local"

SyncPlanOf(call, local, remote) ==
    [i \in 1..Len(RelPaths) |->
        [path |-> RelPaths[i],
         action |-> PlanFor(call, local[RelPaths[i]], remote[RelPaths[i]])]]

ApplyLocal(step, local, remote) ==
    IF step.action \in {"create-local", "update-local"}
    THEN [local EXCEPT ![step.path] = remote[step.path]]
    ELSE local

ApplyRemote(step, local, remote) ==
    IF step.action \in {"create-remote", "update-remote"}
    THEN [remote EXCEPT ![step.path] = local[step.path]]
    ELSE IF step.action = "delete-remote"
    THEN [remote EXCEPT ![step.path] = 0]
    ELSE remote

\* Where the reconciler goes after a failed action: on to the next one.
AfterFailureAbort(next, plan) == Len(plan) + 1

AfterFailure(next, plan) == next + 1

(***************************************************************************)
(* move_file_to_trash: the entry and everything beneath it leave the tree. *)
(***************************************************************************)
RECURSIVE Beneath(_, _, _)
Beneath(ns, ids, fuel) ==
    LET more == ids \cup {ns[i].file_id : i \in {j \in 1..Len(ns) : ns[j].parent \in ids}}
    IN  IF more = ids \/ fuel = 0 THEN ids ELSE Beneath(ns, more, fuel - 1)

move_file_to_trash(ns, file_id) ==
    LET gone == Beneath(ns, {file_id}, Len(ns))
        Stays(n) == n.file_id \notin gone
    IN  IF file_id = RootId THEN ns ELSE SelectSeq(ns, Stays)

\* upload_file and upload_folder: the local file, or the local directory,
\* becomes a new entry under the folder.
NameUp == <<"u">>

upload(store, parent_file_id, local) ==
    [store EXCEPT
        !.seq = store.seq + 1,
        !.nodes = Append(@, Node(store.seq + 1, NameUp,
                                 IF local = "dir" THEN "folder" ELSE "file",
                                 parent_file_id))]

(***************************************************************************)
(* Inputs: remote paths and initial remote trees.                          *)
(***************************************************************************)
NameA == <<"a">>
NameB == <<"b">>
NameA1 == <<"a", "(", "1", ")">>
NameA2 == <<"a", "(", "2", ")">>

Paths ==
    { <<"/">>,
      <<>>,
      <<"/", "a">>,
      <<"a">>,
      <<" ", "/", "a", " ">>,
      <<"/", "a", "/", "b">>,
      <<"/", "b">>,
      <<"a", ":", "b">>,
      <<"/", "a", ":", "/", "/", "b">> }

Tree(entries) ==
    [i \in 1..Len(entries) |->
        Node(i, entries[i][1], entries[i][2], entries[i][3])]

InitTrees ==
    { Tree(<<>>),
      Tree(<< <<NameA, "folder", 0>>, <<NameA1, "folder", 0>> >>),
      Tree(<< <<NameA1, "folder", 0>>, <<NameA2, "folder", 0>> >>),
      Tree(<< <<NameA, "folder", 0>>, <<NameB, "folder", 1>> >>),
      Tree(<< <<NameA, "file", 0>> >>),
      Tree(<< <<NameA, "folder", 0>>, <<NameB, "file", 1>> >>),
      Tree(<< <<NameA, "folder", 0>>, <<NameA, "folder", 0>> >>) }

Commands == {"ls", "mb", "put", "get", "rm", "sync"}

\* What the local path of put names: nothing, a file or a directory.
LocalKinds == {"missing", "file", "dir"}

Modes == {"both", "local", "remote"}

NoArgs ==
    [command |-> "none", path |-> <<>>, debug |-> FALSE, mode |-> "both",
     ignore_content |-> FALSE, follow_delete |-> FALSE, local |-> "dir"]

NoWalk == [path |-> <<>>, parent |-> RootId, segs |-> <<>>, folder |-> NoneNode]

NoSync ==
    [call |-> [flag |-> "None", remote_folder |-> -1, ignore_content |-> FALSE,
               follow_delete |-> FALSE],
     plan |-> <<>>, next |-> 1, attempted |-> {}, failed |-> {},
     local0 |-> [p \in {} |-> 0], remote0 |-> [p \in {} |-> 0]]

\* The conflict policy _resolve_remote_folder passes to get_folder_by_path.
CheckNameMode == "auto_rename"

NoOutcome == [code |-> -1, escaped |-> FALSE]

NoCall == [called |-> FALSE, before |-> <<>>, after |-> <<>>, path |-> <<>>,
           err |-> NoError, node |-> NoneNode]

(***************************************************************************)
(* State.                                                                  *)
(***************************************************************************)
VARIABLES
    nodes,        \* FakeAli.children, flattened
    seq,          \* FakeAli._seq
    created,      \* FakeAli.created
    localTree,    \* the local folder of sync, by relative path
    remoteTree,   \* the files of the remote folder of sync, by relative path
    pc,           \* where the current invocation of main stands
    args,         \* the parsed arguments of the current invocation
    walk,         \* get_folder_by_path in progress: path, parent, segments left, result
    levels,       \* what each lookup of the current invocation met
    creates,      \* what each create_folder call of the current invocation met
    sync,         \* sync_folder in progress
    raised,       \* what the handler raised
    outcome,      \* how main ended
    rrf,          \* the last call of _resolve_remote_file
    created0,     \* Len(created) when the invocation started
    nodes0,       \* nodes when the invocation started
    raced,        \* another actor created a folder during this invocation
    mats,         \* the materialisations completed so far
    dirty,        \* the tree was changed since the last completed materialisation
    runs,         \* invocations started
    races,        \* folders created by another actor
    shape,        \* the outcomes of resolving under each node representation
    norm,         \* a path string and what _normalize_remote_path made of it
    cpmv          \* cp or mv in progress: its arguments and the steps it took

storeVars == <<nodes, seq, created>>
treeVars == <<localTree, remoteTree>>
runVars == <<pc, args, walk, levels, creates, sync, raised, outcome, rrf,
             created0, nodes0, raced>>
histVars == <<mats, dirty, runs, races>>
vars == <<nodes, seq, created, localTree, remoteTree, pc, args, walk, levels,
          creates, sync, raised, outcome, rrf, created0, nodes0, raced, mats,
          dirty, runs, races, shape, norm, cpmv>>

\* The store of the behaviours hands out objects (dict_mode=False).
Store == [nodes |-> nodes, seq |-> seq, created |-> created, dict_mode |-> FALSE]

SetStore(st) ==
    /\ nodes' = st.nodes
    /\ seq' = st.seq
    /\ created' = st.created

NoShape == [asked |-> FALSE, create |-> FALSE, obj |-> <<>>, dict |-> <<>>]

NoNorm == [asked |-> FALSE, input |-> <<>>, first |-> <<>>, second |-> <<>>,
           remote |-> <<>>]

NoCopy == [source |-> <<>>, destination |-> <<>>, src |-> NoneNode,
           to_parent_file_id |-> -1, new_name |-> <<>>, steps |-> <<>>,
           calls |-> <<>>]

InitCommon ==
    /\ nodes \in InitTrees
    /\ seq = Len(nodes)
    /\ created = <<>>
    /\ pc = "ready"
    /\ args = NoArgs
    /\ walk = NoWalk
    /\ levels = <<>>
    /\ creates = <<>>
    /\ sync = NoSync
    /\ raised = NoError
    /\ outcome = NoOutcome
    /\ rrf = NoCall
    /\ created0 = 0
    /\ nodes0 = nodes
    /\ raced = FALSE
    /\ mats = <<>>
    /\ dirty = FALSE
    /\ runs = 0
    /\ races = 0
    /\ shape = NoShape
    /\ norm = NoNorm
    /\ cpmv = NoCopy

Init ==
    /\ InitCommon
    /\ localTree = [p \in {"f1", "f2"} |-> IF p = "f1" THEN 1 ELSE 0]
    /\ remoteTree = [p \in {"f1", "f2"} |-> IF p = "f1" THEN 0 ELSE 1]

(***************************************************************************)
(* main: parse the arguments and dispatch; end with what the handler       *)
(* returned or raised.                                                     *)
(***************************************************************************)
Finish(exc) ==
    /\ pc' = "done"
    /\ raised' = exc
    /\ outcome' = main_exit(exc, args.debug)

\* parse_args: a missing or unknown command leaves through parser.error.
StartWith(cmds, paths, debugs, contents, limit) ==
    /\ pc \in {"ready", "done"}
    /\ runs < limit
    /\ \E cmd \in cmds, p \in paths,
          d \in debugs, m \in Modes, ic \in contents, fd \in BOOLEAN,
          l \in LocalKinds :
        /\ cmd # "sync" => (m = "both" /\ ~ic /\ ~fd)
        /\ cmd # "put" => l = "dir"
        /\ cmd \in {"missing", "version"} => (p = <<>> /\ ~d)
        /\ args' = [command |-> cmd, path |-> p, debug |-> d, mode |-> m,
                    ignore_content |-> ic, follow_delete |-> fd, local |-> l]
        /\ pc' = IF cmd \in {"missing", "version"} THEN "done" ELSE "handler"
        /\ outcome' = IF cmd = "missing" THEN [code |-> 2, escaped |-> FALSE]
                      ELSE IF cmd = "version" THEN [code |-> 0, escaped |-> FALSE]
                      ELSE NoOutcome
    /\ runs' = runs + 1
    /\ walk' = NoWalk
    /\ levels' = <<>>
    /\ creates' = <<>>
    /\ sync' = NoSync
    /\ raised' = NoError
    /\ rrf' = NoCall
    /\ created0' = Len(created)
    /\ nodes0' = nodes
    /\ raced' = FALSE
    /\ UNCHANGED <<storeVars, treeVars, mats, dirty, races, shape, norm, cpmv>>

\* --ignore-content is only handed on to sync_folder; both its values are
\* taken in SpecSync.
Start ==
    StartWith(Commands \cup {"missing", "version"}, Paths, BOOLEAN, {FALSE}, MaxRuns)

MatRecord(path, ok, folder, log) ==
    [path |-> path, ok |-> ok, id |-> folder.file_id,
     ncreated |-> Len(log) - created0, clean |-> ~dirty, raced |-> raced]

\* _cmd_put: a local path that does not exist is refused before any remote
\* call.
PutMissing ==
    /\ pc = "handler"
    /\ args.command = "put"
    /\ args.local = "missing"
    /\ Finish(Raise("FileNotFoundError", <<>>))
    /\ UNCHANGED <<storeVars, treeVars, args, walk, levels, creates, sync, rrf,
                   created0, nodes0, raced, histVars, shape, norm, cpmv>>

\* _resolve_remote_folder(create=True), up to the call of get_folder_by_path.
MatBegin ==
    /\ pc = "handler"
    /\ \/ args.command \in {"mb", "sync"}
       \/ args.command = "put" /\ args.local # "missing"
    /\ LET n == normalize_remote_path(args.path)
       IN  IF n.err # NoError
           THEN /\ Finish(n.err)
                /\ UNCHANGED <<walk, mats, dirty>>
           ELSE IF n.value = <<"/">>
           THEN /\ walk' = [NoWalk EXCEPT !.path = n.value,
                                          !.folder = get_file(Store, RootId).node]
                /\ pc' = "resolved"
                /\ mats' = Append(mats, MatRecord(n.value, TRUE, RootNode, created))
                /\ dirty' = FALSE
                /\ UNCHANGED <<raised, outcome>>
           ELSE /\ walk' = [path |-> n.value, parent |-> RootId,
                            segs |-> Segments(n.value),
                            folder |-> IF Segments(n.value) = <<>>
                                       THEN get_file(Store, RootId).node
                                       ELSE NoneNode]
                /\ pc' = IF Segments(n.value) = <<>> THEN "mat_return"
                         ELSE "mat_lookup"
                /\ UNCHANGED <<raised, outcome, mats, dirty>>
    /\ UNCHANGED <<storeVars, treeVars, args, levels, creates, sync, rrf,
                   created0, nodes0, raced, runs, races, shape, norm, cpmv>>

\* The folders under the parent named exactly seg, and the names of its
\* auto-renamed siblings, read off the tree itself.
ExactIds(ns, parent_file_id, seg) ==
    {ns[i].file_id : i \in {j \in 1..Len(ns) :
        /\ ns[j].parent = parent_file_id
        /\ ns[j].type = "folder"
        /\ ns[j].name = seg}}

SiblingNames(ns, parent_file_id, seg) ==
    {ns[i].name : i \in {j \in 1..Len(ns) :
        /\ ns[j].parent = parent_file_id
        /\ ns[j].type = "folder"
        /\ IsAutoRenamed(ns[j].name, seg)}}

\* get_folder_by_path: list the folders under the parent, look for the segment.
MatLookup ==
    /\ pc = "mat_lookup"
    /\ LET seg == Head(walk.segs)
           found == LookupLevel(Store, walk.parent, seg)
       IN  /\ levels' = Append(levels,
                  [parent |-> walk.parent, seg |-> seg,
                   exact |-> ExactIds(nodes, walk.parent, seg),
                   sibs |-> SiblingNames(nodes, walk.parent, seg),
                   chosen |-> found.file_id])
           /\ IF found # NoneNode
              THEN IF Len(walk.segs) = 1
                   THEN /\ walk' = [walk EXCEPT !.segs = <<>>, !.folder = found]
                        /\ pc' = "mat_return"
                   ELSE /\ walk' = [walk EXCEPT !.segs = Tail(@),
                                                !.parent = found.file_id]
                        /\ pc' = "mat_lookup"
              ELSE /\ walk' = walk
                   /\ pc' = "mat_create"
    /\ UNCHANGED <<storeVars, treeVars, args, creates, sync, raised, outcome,
                   rrf, created0, nodes0, raced, histVars, shape, norm, cpmv>>

\* get_folder_by_path: the segment was not found, create it.
MatCreate ==
    /\ pc = "mat_create"
    /\ LET seg == Head(walk.segs)
           made == create_folder(Store, seg, walk.parent, CheckNameMode)
       IN  /\ creates' = Append(creates,
                  [parent |-> walk.parent, seg |-> seg,
                   existed |-> ExactIds(nodes, walk.parent, seg),
                   made |-> made.folder.file_id])
           /\ SetStore(made.store)
           /\ IF made.err # NoError
              THEN /\ Finish(made.err)
                   /\ walk' = walk
                   /\ mats' = Append(mats, MatRecord(walk.path, FALSE, NoneNode, made.store.created))
                   /\ dirty' = FALSE
              ELSE /\ IF Len(walk.segs) = 1
                      THEN /\ walk' = [walk EXCEPT !.segs = <<>>,
                                                   !.folder = made.folder]
                           /\ pc' = "mat_return"
                      ELSE /\ walk' = [walk EXCEPT !.segs = Tail(@),
                                                   !.parent = made.folder.file_id]
                           /\ pc' = "mat_lookup"
                   /\ UNCHANGED <<raised, outcome, mats, dirty>>
    /\ UNCHANGED <<treeVars, args, levels, sync, rrf, created0, nodes0, raced,
                   runs, races, shape, norm, cpmv>>

\* _resolve_remote_folder: the checks on what get_folder_by_path returned.
MatReturn ==
    /\ pc = "mat_return"
    /\ args.command \notin {"cp", "mv"}
    /\ LET e == resolve_remote_folder(walk.path, walk.folder)
       IN  /\ mats' = Append(mats, MatRecord(walk.path, e = NoError, walk.folder, created))
           /\ dirty' = FALSE
           /\ IF e # NoError
              THEN Finish(e)
              ELSE /\ pc' = "resolved"
                   /\ UNCHANGED <<raised, outcome>>
    /\ UNCHANGED <<storeVars, treeVars, args, walk, levels, creates, sync, rrf,
                   created0, nodes0, raced, runs, races, shape, norm, cpmv>>

\* Another client of the store creates the folder this invocation is about
\* to create, between its lookup and its create_folder call.
ConcurrentCreate ==
    /\ pc = "mat_create"
    /\ races < MaxRaces
    /\ SetStore([add_folder(Store, walk.parent, Head(walk.segs)) EXCEPT !.created = created])
    /\ races' = races + 1
    /\ raced' = TRUE
    /\ dirty' = TRUE
    /\ UNCHANGED <<treeVars, pc, args, walk, levels, creates, sync, raised,
                   outcome, rrf, created0, nodes0, mats, runs, shape, norm, cpmv>>

\* _cmd_ls, _cmd_get and _cmd_rm: _resolve_remote_file.
ResolveFile ==
    /\ pc = "handler"
    /\ args.command \in {"ls", "get", "rm"}
    /\ LET r == resolve_remote_file(Store, args.path)
       IN  /\ rrf' = [called |-> TRUE, before |-> nodes, after |-> r.store.nodes,
                      path |-> args.path, err |-> r.err, node |-> r.node]
           /\ SetStore(r.store)
           /\ dirty' = (dirty \/ r.store.nodes # nodes)
           /\ walk' = [NoWalk EXCEPT !.folder = r.node]
           /\ IF r.err # NoError
              THEN Finish(r.err)
              ELSE /\ pc' = "resolved"
                   /\ UNCHANGED <<raised, outcome>>
    /\ UNCHANGED <<treeVars, args, levels, creates, sync, created0, nodes0,
                   raced, mats, runs, races, shape, norm, cpmv>>

\* _cmd_ls: the file itself, or the listing of the folder, which is asked
\* for without a type.
LsDone ==
    /\ pc = "resolved"
    /\ args.command = "ls"
    /\ LET target == walk.folder
           files == IF target.type # "folder"
                    THEN [err |-> NoError, list |-> <<target>>]
                    ELSE get_file_list(Store, target.file_id, "None")
       IN  Finish(files.err)
    /\ UNCHANGED <<storeVars, treeVars, args, walk, levels, creates, sync, rrf,
                   created0, nodes0, raced, histVars, shape, norm, cpmv>>

\* _cmd_mb: print the folder.
MbDone ==
    /\ pc = "resolved"
    /\ args.command = "mb"
    /\ Finish(NoError)
    /\ UNCHANGED <<storeVars, treeVars, args, walk, levels, creates, sync, rrf,
                   created0, nodes0, raced, histVars, shape, norm, cpmv>>

\* _cmd_get: download_folder or download_file into the local directory; the
\* remote store is left as it is.
GetDone ==
    /\ pc = "resolved"
    /\ args.command = "get"
    /\ Finish(NoError)
    /\ UNCHANGED <<storeVars, treeVars, args, walk, levels, creates, sync, rrf,
                   created0, nodes0, raced, histVars, shape, norm, cpmv>>

\* _cmd_put: upload_folder or upload_file under the resolved folder.
PutUpload ==
    /\ pc = "resolved"
    /\ args.command = "put"
    /\ SetStore(upload(Store, walk.folder.file_id, args.local))
    /\ dirty' = TRUE
    /\ Finish(NoError)
    /\ UNCHANGED <<treeVars, args, walk, levels, creates, sync, rrf, created0,
                   nodes0, raced, mats, runs, races, shape, norm, cpmv>>

\* _cmd_rm: move_file_to_trash(target.file_id).
RmTrash ==
    /\ pc = "resolved"
    /\ args.command = "rm"
    /\ nodes' = move_file_to_trash(nodes, walk.folder.file_id)
    /\ dirty' = (dirty \/ nodes' # nodes)
    /\ Finish(NoError)
    /\ UNCHANGED <<seq, created, treeVars, args, walk, levels, creates, sync,
                   rrf, created0, nodes0, raced, mats, runs, races, shape, norm, cpmv>>

\* _cmd_sync: map the mode to the flag and call sync_folder, which plans.
SyncBegin ==
    /\ pc = "resolved"
    /\ args.command = "sync"
    /\ LET call == sync_call(args, walk.folder.file_id)
       IN  sync' = [call |-> call,
                    plan |-> SyncPlanOf(call, localTree, remoteTree),
                    next |-> 1, attempted |-> {}, failed |-> {},
                    local0 |-> localTree, remote0 |-> remoteTree]
    /\ pc' = "sync_apply"
    /\ UNCHANGED <<storeVars, treeVars, args, walk, levels, creates, raised,
                   outcome, rrf, created0, nodes0, raced, histVars, shape, norm, cpmv>>

\* sync_folder: the next action of the plan succeeds.
SyncApplyOk ==
    /\ pc = "sync_apply"
    /\ sync.next <= Len(sync.plan)
    /\ LET step == sync.plan[sync.next]
       IN  /\ localTree' = ApplyLocal(step, localTree, remoteTree)
           /\ remoteTree' = ApplyRemote(step, localTree, remoteTree)
    /\ sync' = [sync EXCEPT !.attempted = @ \cup {sync.next}, !.next = @ + 1]
    /\ UNCHANGED <<storeVars, pc, args, walk, levels, creates, raised, outcome,
                   rrf, created0, nodes0, raced, histVars, shape, norm, cpmv>>

\* sync_folder: the next action of the plan fails; it is recorded.
SyncApplyFail ==
    /\ pc = "sync_apply"
    /\ sync.next <= Len(sync.plan)
    /\ sync.plan[sync.next].action # "skip"
    /\ sync' = [sync EXCEPT !.attempted = @ \cup {sync.next},
                            !.failed = @ \cup {sync.plan[sync.next].path},
                            !.next = AfterFailure(sync.next, sync.plan)]
    /\ UNCHANGED <<storeVars, treeVars, pc, args, walk, levels, creates, raised,
                   outcome, rrf, created0, nodes0, raced, histVars, shape, norm, cpmv>>

\* sync_folder returns, or reports the failed paths; _cmd_sync returns 0.
SyncFinish ==
    /\ pc = "sync_apply"
    /\ sync.next > Len(sync.plan)
    /\ IF sync.failed = {}
       THEN Finish(NoError)
       ELSE Finish(RaiseNamed("PartialSyncFailure", sync.failed))
    /\ UNCHANGED <<storeVars, treeVars, args, walk, levels, creates, sync, rrf,
                   created0, nodes0, raced, histVars, shape, norm, cpmv>>

\* Ctrl-C while the handler runs.
Interrupt ==
    /\ pc \notin {"ready", "done"}
    /\ Finish(Raise("KeyboardInterrupt", <<>>))
    /\ dirty' = (dirty \/ Len(created) > created0)
    /\ UNCHANGED <<storeVars, treeVars, args, walk, levels, creates, sync, rrf,
                   created0, nodes0, raced, mats, runs, races, shape, norm, cpmv>>

Next ==
    \/ Start
    \/ MatBegin
    \/ MatLookup
    \/ MatCreate
    \/ MatReturn
    \/ ConcurrentCreate
    \/ ResolveFile
    \/ LsDone
    \/ MbDone
    \/ PutMissing
    \/ PutUpload
    \/ GetDone
    \/ RmTrash
    \/ SyncBegin
    \/ SyncApplyOk
    \/ SyncApplyFail
    \/ SyncFinish
    \/ Interrupt

Spec == Init /\ [][Next]_vars

(***************************************************************************)
(* Materialisation on its own: several invocations of mb and rm in a row.  *)
(***************************************************************************)
MatPaths == { <<"/">>, <<"/", "a">>, <<"a">>, <<"/", "a", "/", "b">>, <<"/", "b">> }

StartMat == StartWith({"mb", "rm"}, MatPaths, {FALSE}, {FALSE}, MaxMats)

NextMat ==
    \/ StartMat
    \/ MatBegin
    \/ MatLookup
    \/ MatCreate
    \/ MatReturn
    \/ ConcurrentCreate
    \/ ResolveFile
    \/ MbDone
    \/ RmTrash
    \/ Interrupt

SpecMat == Init /\ [][NextMat]_vars

(***************************************************************************)
(* One sync run over every pair of local and remote trees.                 *)
(***************************************************************************)
SyncPaths == { <<"/">>, <<"/", "a">>, <<"a", ":", "b">> }

InitSync ==
    /\ InitCommon
    /\ nodes \in {Tree(<<>>), Tree(<< <<NameA, "folder", 0>>, <<NameA1, "folder", 0>> >>)}
    /\ localTree \in [{"f1", "f2"} -> Versions]
    /\ remoteTree \in [{"f1", "f2"} -> Versions]

StartSync == StartWith({"sync"}, SyncPaths, BOOLEAN, BOOLEAN, 1)

NextSync ==
    \/ StartSync
    \/ MatBegin
    \/ MatLookup
    \/ MatCreate
    \/ MatReturn
    \/ SyncBegin
    \/ SyncApplyOk
    \/ SyncApplyFail
    \/ SyncFinish
    \/ Interrupt

SpecSync == InitSync /\ [][NextSync]_vars

(***************************************************************************)
(* The same resolution with the collaborator returning rich objects and    *)
(* returning plain key/value records (FakeAli(dict_mode=True)).            *)
(***************************************************************************)
ShapeOutcome(as_dict) ==
    LET r == resolve_remote_folder_run([Store EXCEPT !.dict_mode = as_dict],
                                       args.path, shape.create, CheckNameMode)
    IN  [kind |-> r.err.kind, id |-> r.folder.file_id,
         calls |-> SubSeq(r.store.created, Len(created) + 1, Len(r.store.created))]

InitShape ==
    /\ InitCommon
    /\ localTree = [p \in {"f1", "f2"} |-> 0]
    /\ remoteTree = [p \in {"f1", "f2"} |-> 0]

ShapeAsk ==
    /\ ~shape.asked
    /\ \E p \in Paths, c \in BOOLEAN :
        /\ args' = [NoArgs EXCEPT !.command = "mb", !.path = p]
        /\ shape' = [NoShape EXCEPT !.asked = TRUE, !.create = c]
    /\ UNCHANGED <<storeVars, treeVars, pc, walk, levels, creates, sync, raised,
                   outcome, rrf, created0, nodes0, raced, histVars, norm, cpmv>>

ShapeResolveObj ==
    /\ shape.asked
    /\ shape.obj = <<>>
    /\ shape' = [shape EXCEPT !.obj = <<ShapeOutcome(FALSE)>>]
    /\ UNCHANGED <<storeVars, treeVars, runVars, histVars, norm, cpmv>>

ShapeResolveDict ==
    /\ shape.asked
    /\ shape.dict = <<>>
    /\ shape' = [shape EXCEPT !.dict = <<ShapeOutcome(TRUE)>>]
    /\ UNCHANGED <<storeVars, treeVars, runVars, histVars, norm, cpmv>>

NextShape ==
    \/ ShapeAsk
    \/ ShapeResolveObj
    \/ ShapeResolveDict

SpecShape == InitShape /\ [][NextShape]_vars

(***************************************************************************)
(* _normalize_remote_path on path strings of up to MaxPathLen characters,  *)
(* applied once and, when it accepted, again to its own result; and what   *)
(* _resolve_remote_folder(create=True) does to the store for that string.  *)
(* The empty string stands for both "" and None: `path or "/"` treats them *)
(* alike.                                                                  *)
(***************************************************************************)
PathChars == {"/", ":", "a", " ", "\r", "U+00A0"}

RECURSIVE StringsUpTo(_)
StringsUpTo(n) ==
    IF n = 0 THEN { <<>> }
    ELSE LET shorter == StringsUpTo(n - 1)
         IN  shorter \cup { Append(s, c) : s \in shorter, c \in PathChars }

NormInputs == StringsUpTo(MaxPathLen)

NormAsk ==
    /\ ~norm.asked
    /\ \E p \in NormInputs : norm' = [NoNorm EXCEPT !.asked = TRUE, !.input = p]
    /\ UNCHANGED <<storeVars, treeVars, runVars, histVars, shape, cpmv>>

NormApply ==
    /\ norm.asked
    /\ norm.first = <<>>
    /\ LET r == resolve_remote_folder_run(Store, norm.input, TRUE, CheckNameMode)
       IN  norm' = [norm EXCEPT
                       !.first = <<normalize_remote_path(norm.input)>>,
                       !.remote = <<[kind |-> r.err.kind,
                                     touched |-> r.store # Store]>>]
    /\ UNCHANGED <<storeVars, treeVars, runVars, histVars, shape, cpmv>>

NormAgain ==
    /\ norm.first # <<>>
    /\ norm.first[1].err = NoError
    /\ norm.second = <<>>
    /\ norm' = [norm EXCEPT
                   !.second = <<normalize_remote_path(norm.first[1].value)>>]
    /\ UNCHANGED <<storeVars, treeVars, runVars, histVars, shape, cpmv>>

NextNorm ==
    \/ NormAsk
    \/ NormApply
    \/ NormAgain

SpecNorm == InitShape /\ [][NextNorm]_vars

(***************************************************************************)
(* cp and mv: resolve the source, resolve or materialise the destination,  *)
(* then one call of copy_file or move_file.                                *)
(***************************************************************************)
EndsWith(s, p) ==
    /\ Len(s) >= Len(p)
    /\ SubSeq(s, Len(s) - Len(p) + 1, Len(s)) = p

\* str.rstrip("/")
RECURSIVE RStripSlash(_)
RStripSlash(s) ==
    IF s # <<>> /\ s[Len(s)] = "/" THEN RStripSlash(SubSeq(s, 1, Len(s) - 1)) ELSE s

\* os.path.split: what precedes the last "/" and what follows it; the head
\* loses its trailing separators unless it consists of separators only.
path_split(p) ==
    LET slashes == {k \in 1..Len(p) : p[k] = "/"}
        i == IF slashes = {} THEN 0 ELSE CHOOSE k \in slashes : \A m \in slashes : m <= k
        head == SubSeq(p, 1, i)
        tail == SubSeq(p, i + 1, Len(p))
    IN  [head |-> IF RStripSlash(head) = <<>> THEN head ELSE RStripSlash(head),
         tail |-> tail]

\* _resolve_target_parent_and_name: the folder to copy or move into and the
\* new name (<<>> for None), creating the folder where the code asks for it.
resolve_target_parent_and_name(store, destination) ==
    LET dst == normalize_remote_path(destination)
        none == [err |-> NoError, store |-> store, to_parent_file_id |-> RootId,
                 new_name |-> <<>>]
        \* folder.file_id, parent.file_id: an attribute read, which a plain
        \* dict does not answer.
        FileIdOf(r, name) ==
            IF r.err # NoError
            THEN [err |-> r.err, store |-> r.store, to_parent_file_id |-> -1,
                  new_name |-> <<>>]
            ELSE IF r.folder.dict
            THEN [err |-> Raise("AttributeError", dst.value), store |-> r.store,
                  to_parent_file_id |-> -1, new_name |-> <<>>]
            ELSE [err |-> NoError, store |-> r.store,
                  to_parent_file_id |-> r.folder.file_id, new_name |-> name]
    IN  IF dst.err # NoError THEN [none EXCEPT !.err = dst.err]
        ELSE IF dst.value = <<"/">> THEN none
        ELSE IF EndsWith(destination, <<"/">>)
        THEN FileIdOf(resolve_remote_folder_run(store, dst.value, TRUE,
                                                CheckNameMode), <<>>)
        ELSE LET maybe_folder == get_folder_by_path(store, RootId,
                                     Segments(dst.value), FALSE, "refuse").folder
                 sp == path_split(RStripSlash(dst.value))
             IN  IF maybe_folder # NoneNode /\ maybe_folder.dict
                 THEN [none EXCEPT !.err = Raise("AttributeError", dst.value),
                                   !.to_parent_file_id = -1]
                 ELSE IF maybe_folder # NoneNode /\ maybe_folder.type = "folder"
                 THEN [none EXCEPT !.to_parent_file_id = maybe_folder.file_id]
                 ELSE FileIdOf(resolve_remote_folder_run(store,
                                   IF sp.head = <<>> THEN <<"/">> ELSE sp.head,
                                   TRUE, CheckNameMode), sp.tail)

\* copy_file: a new entry under the target folder, named new_name when given.
copy_file(store, src, to_parent_file_id, new_name) ==
    [store EXCEPT
        !.seq = store.seq + 1,
        !.nodes = Append(store.nodes,
                         Node(store.seq + 1,
                              IF new_name = <<>> THEN src.name ELSE new_name,
                              src.type, to_parent_file_id))]

\* move_file: the entry itself, under the target folder and renamed when a
\* new name is given.
move_file(store, src, to_parent_file_id, new_name) ==
    [store EXCEPT
        !.nodes = [i \in 1..Len(store.nodes) |->
                      IF store.nodes[i].file_id = src.file_id
                      THEN Node(src.file_id,
                                IF new_name = <<>> THEN src.name ELSE new_name,
                                src.type, to_parent_file_id)
                      ELSE store.nodes[i]]]

\* An exception raised by a step leaves the handler at once.
aborts_never(err) == FALSE

aborts(err) == err # NoError

CopySources == { <<"/">>, <<"/", "a">>, <<"/", "b">>, <<"/", "a", "/", "b">>,
                 <<"a", ":", "b">> }

CopyDests == { <<"/">>, <<"/", "a">>, <<"/", "b">>, <<"/", "b", "/">>,
               <<"/", "b", "/", "c">>, <<"/", "a", "/", "b", "/">>,
               <<"a", ":", "/", "/", "b">>, <<"/", "b", "/", " ">> }

CopyStart ==
    /\ pc = "ready"
    /\ runs = 0
    /\ \E cmd \in {"cp", "mv"}, src \in CopySources, dst \in CopyDests,
          d \in BOOLEAN :
        /\ args' = [NoArgs EXCEPT !.command = cmd, !.path = src, !.debug = d]
        /\ cpmv' = [NoCopy EXCEPT !.source = src, !.destination = dst]
    /\ pc' = "cp_source"
    /\ runs' = runs + 1
    /\ created0' = Len(created)
    /\ nodes0' = nodes
    /\ UNCHANGED <<storeVars, treeVars, walk, levels, creates, sync, raised,
                   outcome, rrf, raced, mats, dirty, races, shape, norm>>

\* src = _resolve_remote_file(ali, args.source)
CopyResolveSource ==
    /\ pc = "cp_source"
    /\ LET r == resolve_remote_file(Store, cpmv.source)
       IN  /\ SetStore(r.store)
           /\ cpmv' = [cpmv EXCEPT
                          !.src = r.node,
                          !.steps = Append(@, IF r.err # NoError
                                              THEN "source_failed" ELSE "source")]
           /\ IF aborts(r.err)
              THEN Finish(r.err)
              ELSE /\ pc' = "cp_target"
                   /\ UNCHANGED <<raised, outcome>>
    /\ UNCHANGED <<treeVars, args, walk, levels, creates, sync, rrf, created0,
                   nodes0, raced, histVars, shape, norm>>

\* to_parent_file_id, new_name = _resolve_target_parent_and_name(ali,
\* args.destination), up to the walk that may create folders: the root, an
\* existing folder at the destination, or the start of the walk over the
\* destination (when it ends with "/") or over its parent path.
CopyTargetBegin ==
    /\ pc = "cp_target"
    /\ LET dst == normalize_remote_path(cpmv.destination)
           maybe_folder == get_folder_by_path(Store, RootId, Segments(dst.value),
                                              FALSE, "refuse").folder
           sp == path_split(RStripSlash(dst.value))
           ends == EndsWith(cpmv.destination, <<"/">>)
           exists == ~ends /\ maybe_folder # NoneNode /\ maybe_folder.type = "folder"
           parent_path == normalize_remote_path(
                              IF ends THEN dst.value
                              ELSE IF sp.head = <<>> THEN <<"/">> ELSE sp.head)
           name == IF ends \/ exists THEN <<>> ELSE sp.tail
           root == get_file(Store, RootId).node
           Failed(e) ==
               /\ cpmv' = [cpmv EXCEPT !.steps = Append(@, "target_failed")]
               /\ walk' = walk
               /\ IF aborts(e)
                  THEN Finish(e)
                  ELSE /\ pc' = "cp_issue"
                       /\ UNCHANGED <<raised, outcome>>
           Found(id) ==
               /\ cpmv' = [cpmv EXCEPT !.to_parent_file_id = id,
                                       !.new_name = name,
                                       !.steps = Append(@, "target")]
               /\ pc' = "cp_issue"
               /\ UNCHANGED <<walk, raised, outcome>>
       IN  IF dst.err # NoError THEN Failed(dst.err)
           ELSE IF dst.value = <<"/">> THEN Found(RootId)
           ELSE IF ~ends /\ maybe_folder # NoneNode /\ maybe_folder.dict
           THEN Failed(Raise("AttributeError", dst.value))
           ELSE IF exists THEN Found(maybe_folder.file_id)
           ELSE IF parent_path.value = <<"/">>
           THEN IF root.dict THEN Failed(Raise("AttributeError", dst.value))
                ELSE Found(root.file_id)
           ELSE /\ cpmv' = [cpmv EXCEPT !.new_name = name]
                /\ walk' = [path |-> parent_path.value, parent |-> RootId,
                            segs |-> Segments(parent_path.value),
                            folder |-> IF Segments(parent_path.value) = <<>>
                                       THEN get_file(Store, RootId).node
                                       ELSE NoneNode]
                /\ pc' = IF Segments(parent_path.value) = <<>> THEN "mat_return"
                         ELSE "mat_lookup"
                /\ UNCHANGED <<raised, outcome>>
    /\ UNCHANGED <<storeVars, treeVars, args, levels, creates, sync, rrf,
                   created0, nodes0, raced, histVars, shape, norm>>

\* _resolve_remote_folder checks what the walk returned and
\* _resolve_target_parent_and_name returns its file_id.
CopyTargetReturn ==
    /\ pc = "mat_return"
    /\ args.command \in {"cp", "mv"}
    /\ LET e == resolve_remote_folder(walk.path, walk.folder)
       IN  /\ cpmv' = [cpmv EXCEPT
                          !.to_parent_file_id = walk.folder.file_id,
                          !.steps = Append(@, IF e # NoError
                                              THEN "target_failed" ELSE "target")]
           /\ IF aborts(e)
              THEN Finish(e)
              ELSE /\ pc' = "cp_issue"
                   /\ UNCHANGED <<raised, outcome>>
    /\ UNCHANGED <<storeVars, treeVars, args, walk, levels, creates, sync, rrf,
                   created0, nodes0, raced, histVars, shape, norm>>

\* ali.copy_file(...) or ali.move_file(...): the call is made, and the store
\* carries it out or refuses it.  The root, and a folder moved beneath
\* itself, are always refused.
CopyIssue ==
    /\ pc = "cp_issue"
    /\ LET call == [op |-> IF args.command = "cp" THEN "copy_file" ELSE "move_file",
                    file_id |-> cpmv.src.file_id,
                    to_parent_file_id |-> cpmv.to_parent_file_id,
                    new_name |-> cpmv.new_name]
           possible ==
               /\ cpmv.src.file_id \in {nodes[i].file_id : i \in 1..Len(nodes)}
               /\ cpmv.to_parent_file_id \notin
                      Beneath(nodes, {cpmv.src.file_id}, Len(nodes))
       IN  /\ cpmv' = [cpmv EXCEPT !.steps = Append(@, "issue"),
                                   !.calls = Append(@, call)]
           /\ \E ok \in {TRUE, ~possible} :
                IF ok /\ possible
                THEN /\ SetStore(IF args.command = "cp"
                                 THEN copy_file(Store, cpmv.src,
                                                cpmv.to_parent_file_id, cpmv.new_name)
                                 ELSE move_file(Store, cpmv.src,
                                                cpmv.to_parent_file_id, cpmv.new_name))
                     /\ Finish(NoError)
                ELSE /\ UNCHANGED storeVars
                     /\ Finish(Raise("RemoteError", <<>>))
    /\ UNCHANGED <<treeVars, args, walk, levels, creates, sync, rrf, created0,
                   nodes0, raced, histVars, shape, norm>>

NextCopy ==
    \/ CopyStart
    \/ CopyResolveSource
    \/ CopyTargetBegin
    \/ MatLookup
    \/ MatCreate
    \/ CopyTargetReturn
    \/ CopyIssue
    \/ Interrupt

SpecCopy == Init /\ [][NextCopy]_vars

TypeOK ==
    /\ pc \in {"ready", "handler", "mat_lookup", "mat_create", "mat_return",
               "resolved", "sync_apply", "cp_source", "cp_target", "cp_issue",
               "done"}
    /\ runs \in 0..MaxMats
    /\ races \in 0..MaxRaces
    /\ seq >= Len(nodes)
    /\ \A i \in 1..Len(nodes) : nodes[i].file_id \in 1..seq

(***************************************************************************)
(* Properties.                                                             *)
(***************************************************************************)
\* The names on the way from the root to the entry with this id.
RECURSIVE PathNames(_, _, _)
PathNames(ns, file_id, fuel) ==
    IF file_id = RootId \/ fuel = 0 THEN <<>>
    ELSE LET n == get_file([nodes |-> ns, seq |-> Len(ns), created |-> <<>>,
                            dict_mode |-> FALSE], file_id).node
         IN  IF n = NoneNode THEN <<>>
             ELSE Append(PathNames(ns, n.parent, fuel - 1), n.name)

\* The ids of the entries at the path given by its segments.
IdsAt(ns, segs) ==
    {ns[i].file_id : i \in {j \in 1..Len(ns) :
        PathNames(ns, ns[j].file_id, Len(ns)) = segs}}

Materialising == args.command \in {"mb", "put", "sync"}

WalkOver == pc \in {"mat_return", "resolved", "sync_apply", "done"}

Interrupted == raised.kind = "KeyboardInterrupt"

\* The step-by-step walk and get_folder_by_path run in one piece agree when
\* no other actor interferes.
StepsAgree ==
    (Materialising /\ pc = "mat_return" /\ ~raced) =>
        LET r == get_folder_by_path(
                    [nodes |-> nodes0, seq |-> seq - (Len(created) - created0),
                     created |-> SubSeq(created, 1, created0),
                     dict_mode |-> FALSE],
                    RootId, Segments(walk.path), TRUE, CheckNameMode)
        IN  /\ r.folder = walk.folder
            /\ r.store = Store

\* C1: when sync resolves its remote path and some level holds no folder
\* named exactly the segment but holds auto-renamed siblings of it, no folder
\* is created and the run ends with an Ambiguous error naming every sibling.
C1_SyncAmbiguousRefused ==
    (args.command = "sync" /\
     \E i \in 1..Len(levels) : levels[i].exact = {} /\ levels[i].sibs # {}) =>
        /\ Len(created) = created0
        /\ (pc = "done" /\ ~Interrupted) =>
              /\ raised.kind = "Ambiguous"
              /\ \A i \in 1..Len(levels) :
                    (levels[i].exact = {} /\ levels[i].sibs # {}) =>
                        levels[i].sibs \subseteq raised.names

\* C2: materialising a path whose n segments are all missing makes exactly n
\* create_folder calls, top-down, each under the folder made by the call
\* before it, and every one with the "refuse" conflict policy.
AllMissing ==
    /\ Materialising
    /\ Len(levels) > 0
    /\ levels[1].exact = {}
    /\ levels[1].sibs = {}
    /\ ~raced

RunCalls == SubSeq(created, created0 + 1, Len(created))

C2_CreatesTopDownRefuse ==
    (AllMissing /\ WalkOver /\ walk.segs = <<>>) =>
        LET segs == Segments(walk.path)
        IN  /\ Len(RunCalls) = Len(segs)
            /\ \A i \in 1..Len(RunCalls) :
                  /\ RunCalls[i][2] = segs[i]
                  /\ RunCalls[i][3] = "refuse"
                  /\ RunCalls[i][1] = IF i = 1 THEN RootId ELSE creates[i - 1].made

\* C2, the part that holds: n calls, top-down, each under the folder just made.
C2_CreatesTopDown ==
    (AllMissing /\ WalkOver /\ walk.segs = <<>>) =>
        LET segs == Segments(walk.path)
        IN  /\ Len(RunCalls) = Len(segs)
            /\ \A i \in 1..Len(RunCalls) :
                  /\ RunCalls[i][2] = segs[i]
                  /\ RunCalls[i][1] = IF i = 1 THEN RootId ELSE creates[i - 1].made

\* C3: when every level holds exactly one folder named exactly the segment,
\* whatever auto-renamed siblings it has, resolution returns that folder and
\* creates nothing.
AllExact ==
    /\ Materialising
    /\ Len(levels) > 0
    /\ Len(levels) = Len(Segments(walk.path))
    /\ \A i \in 1..Len(levels) : Cardinality(levels[i].exact) = 1

C3_ExactMatchReused ==
    AllExact =>
        /\ \A i \in 1..Len(levels) : levels[i].chosen \in levels[i].exact
        /\ Len(created) = created0
        /\ WalkOver
        /\ walk.folder.file_id \in levels[Len(levels)].exact
        /\ walk.folder.name = levels[Len(levels)].seg
        /\ raised.kind \in {"none", "KeyboardInterrupt", "PartialSyncFailure"}

C3_Witness ==
    /\ AllExact
    /\ \E i \in 1..Len(levels) : levels[i].sibs # {}
    /\ pc = "done"
    /\ outcome.code = 0

\* C4: a second materialisation of the same path, with no change of the tree
\* by anyone else since the first began, creates nothing and returns the
\* folder the first returned; and without another actor the materialiser
\* never creates a folder beside one of the same name.
C4_Idempotent ==
    /\ \A i \in 2..Len(mats) :
          (mats[i - 1].ok /\ ~mats[i - 1].raced
             /\ mats[i].path = mats[i - 1].path /\ mats[i].clean) =>
              /\ mats[i].ok
              /\ mats[i].id = mats[i - 1].id
              /\ mats[i].ncreated = 0
    /\ (Materialising /\ ~raced) =>
          \A i \in 1..Len(creates) : creates[i].existed = {}

C4_Witness ==
    /\ Len(mats) >= 2
    /\ mats[1].ok
    /\ ~mats[1].raced
    /\ mats[1].ncreated = 2
    /\ mats[2].path = mats[1].path
    /\ mats[2].clean
    /\ mats[2].id = mats[1].id

\* C5: when create_folder is called for a name that another actor created
\* after the lookup, the creation fails, the lookup is repeated, the run goes
\* on with the folder the other actor made, and the parent holds exactly one
\* folder of that name.
C5_RaceRetried ==
    \A i \in 1..Len(creates) :
        creates[i].existed # {} =>
            /\ creates[i].made = -1
            /\ Cardinality(ExactIds(nodes, creates[i].parent, creates[i].seg)) = 1
            /\ (WalkOver /\ walk.segs = <<>> /\ i = Len(Segments(walk.path))) =>
                  walk.folder.file_id \in creates[i].existed

\* C6: resolution gives the same outcome (the same folder id or the same
\* failure) and the same create_folder calls whether listed entries are rich
\* objects or plain key/value records.
C6_ShapeIndependent ==
    (shape.obj # <<>> /\ shape.dict # <<>>) => shape.obj = shape.dict

\* C7: sync passes the mode as the flag (local: True, remote: False, both:
\* None) and follow_delete as given; with --follow-delete unset no
\* delete-remote action is planned and an entry present remotely and absent
\* locally stays present remotely.
C7_NoRemoteDelete ==
    (args.command = "sync" /\ sync.plan # <<>>) =>
        /\ sync.call.flag = (CASE args.mode = "local" -> "True"
                               [] args.mode = "remote" -> "False"
                               [] OTHER -> "None")
        /\ sync.call.follow_delete = args.follow_delete
        /\ ~args.follow_delete =>
              /\ \A i \in 1..Len(sync.plan) : sync.plan[i].action # "delete-remote"
              /\ \A q \in DOMAIN sync.remote0 :
                    (sync.remote0[q] # 0 /\ sync.local0[q] = 0) => remoteTree[q] # 0

C7_Witness ==
    /\ args.command = "sync"
    /\ pc = "done"
    /\ outcome.code = 0
    /\ ~args.follow_delete
    /\ args.mode = "local"
    /\ sync.remote0["f2"] # 0
    /\ sync.local0["f2"] = 0
    /\ sync.local0["f1"] # 0
    /\ remoteTree["f2"] = sync.remote0["f2"]

\* C8: a failed action of the plan does not stop the run: every action of the
\* plan is attempted, and the failed paths are reported together at the end.
C8_AllActionsAttempted ==
    (args.command = "sync" /\ pc = "done" /\ sync.plan # <<>> /\ ~Interrupted) =>
        /\ sync.attempted = 1..Len(sync.plan)
        /\ sync.failed # {} =>
              /\ raised.kind = "PartialSyncFailure"
              /\ raised.names = sync.failed
              /\ outcome.code = 1
        /\ sync.failed = {} => (raised = NoError /\ outcome.code = 0)

C8_Witness ==
    /\ args.command = "sync"
    /\ pc = "done"
    /\ sync.failed = {"f1"}
    /\ sync.attempted = {1, 2}
    /\ sync.plan[2].action = "create-local"
    /\ localTree["f2"] = sync.remote0["f2"]
    /\ raised.names = {"f1"}

\* C9 as stated: main ends with 0 when the handler completes, 1 when it
\* raises an error other than an interrupt, 2 when the command is missing or
\* invalid, 130 when it is interrupted, and no error leaves main uncaught.
HandlerRan == args.command \in Commands

C9_NoErrorEscapes ==
    pc = "done" =>
        /\ outcome.code \in {0, 1, 2, 130}
        /\ args.command = "missing" => outcome.code = 2
        /\ (HandlerRan /\ raised.kind = "none") => outcome.code = 0
        /\ (HandlerRan /\ Interrupted) => outcome.code = 130
        /\ (HandlerRan /\ raised.kind \notin {"none", "KeyboardInterrupt"}) =>
              outcome.code = 1
        /\ ~outcome.escaped

\* C9 amended: the same exit codes, and an error other than an interrupt
\* leaves main uncaught exactly when --debug is set.
C9_ExitCodes ==
    pc = "done" =>
        /\ args.command = "missing" => (outcome.code = 2 /\ ~outcome.escaped)
        /\ args.command = "version" => (outcome.code = 0 /\ ~outcome.escaped)
        /\ (HandlerRan /\ raised.kind = "none") =>
              (outcome.code = 0 /\ ~outcome.escaped)
        /\ (HandlerRan /\ Interrupted) => (outcome.code = 130 /\ ~outcome.escaped)
        /\ (HandlerRan /\ raised.kind \notin {"none", "KeyboardInterrupt"}) =>
              /\ outcome.escaped = args.debug
              /\ ~args.debug => outcome.code = 1

C9_Witness ==
    /\ pc = "done"
    /\ HandlerRan
    /\ raised.kind = "FileNotFoundError"
    /\ args.debug
    /\ outcome.escaped

\* C10: _resolve_remote_file leaves the tree as it was; when it returns an
\* entry, the entry is at the path; when nothing is at the path it fails with
\* FileNotFoundError naming the normalised path.
C10_ReadOnlyResolution ==
    rrf.called =>
        LET value == Strip(IF rrf.path = <<>> THEN <<"/">> ELSE rrf.path)
            segs == Segments(value)
        IN  /\ rrf.after = rrf.before
            /\ Len(created) = created0
            /\ (rrf.err = NoError /\ segs # <<>>) =>
                  rrf.node.file_id \in IdsAt(rrf.before, segs)
            /\ (rrf.err = NoError /\ segs = <<>>) => rrf.node = RootNode
            /\ (~Contains(value, <<":">>) /\ segs # <<>>
                  /\ IdsAt(rrf.before, segs) = {}) =>
                  /\ rrf.err.kind = "FileNotFoundError"
                  /\ StartsWith(rrf.err.path, <<"/">>)
                  /\ Segments(rrf.err.path) = segs
                  /\ Strip(rrf.err.path) = rrf.err.path

C10_Witness ==
    /\ rrf.called
    /\ rrf.before # <<>>
    /\ rrf.err.kind = "FileNotFoundError"
    /\ args.command = "rm"
    /\ pc = "done"
    /\ nodes = rrf.before

\* The destination resolved step by step and
\* _resolve_target_parent_and_name run in one piece agree.
CopyStepsAgree ==
    (args.command \in {"cp", "mv"} /\ pc = "cp_issue") =>
        LET r == resolve_target_parent_and_name(
                    [nodes |-> nodes0, seq |-> seq - (Len(created) - created0),
                     created |-> SubSeq(created, 1, created0),
                     dict_mode |-> FALSE],
                    cpmv.destination)
        IN  /\ r.err = NoError
            /\ r.to_parent_file_id = cpmv.to_parent_file_id
            /\ r.new_name = cpmv.new_name
            /\ r.store = Store

\* C11: in cp and mv the steps run in the order resolve-source, resolve or
\* materialise destination, copy_file/move_file.  When the source does not
\* resolve, no folder is created and no copy or move is issued; when the
\* destination does not resolve, no copy or move is issued; the primitive is
\* called at most once, and only after both resolutions succeeded.
C11_FixedOrder ==
    LET st == cpmv.steps
        failed(name) == \E i \in 1..Len(st) : st[i] = name
        start == [nodes |-> nodes0, seq |-> Len(nodes0), created |-> <<>>,
                  dict_mode |-> FALSE]
    IN  /\ Len(st) <= 3
        /\ Len(st) >= 1 =>
              /\ st[1] \in {"source", "source_failed"}
              /\ (st[1] = "source_failed")
                    = (resolve_remote_file(start, cpmv.source).err # NoError)
        /\ Len(st) >= 2 => (st[1] = "source" /\ st[2] \in {"target", "target_failed"})
        /\ Len(st) >= 3 => (st[2] = "target" /\ st[3] = "issue")
        /\ failed("source_failed") =>
              (nodes = nodes0 /\ Len(created) = created0 /\ cpmv.calls = <<>>
               /\ pc = "done" /\ raised # NoError)
        /\ failed("target_failed") =>
              (cpmv.calls = <<>> /\ pc = "done" /\ raised # NoError)
        /\ Len(cpmv.calls) <= 1
        /\ cpmv.calls # <<>> =>
              /\ st = <<"source", "target", "issue">>
              /\ cpmv.calls[1].file_id = cpmv.src.file_id
              /\ cpmv.src # NoneNode
              /\ cpmv.calls[1].op = (IF args.command = "cp" THEN "copy_file"
                                     ELSE "move_file")

\* The source did not resolve and the command ended there, although its
\* destination is one whose resolution would have created a folder.
C11_Witness ==
    /\ pc = "done"
    /\ cpmv.steps = <<"source_failed">>
    /\ raised.kind = "FileNotFoundError"
    /\ resolve_target_parent_and_name(Store, cpmv.destination).store.nodes # nodes

\* C12 as stated: _normalize_remote_path rejects every input that contains
\* "://" and every input that contains ":" without starting with "/", before
\* any remote call; what it accepts is returned with a leading "/"; an empty
\* or missing input becomes "/"; normalising an accepted result again returns
\* it unchanged.
NormRest ==
    LET r == norm.first[1]
    IN  /\ r.err.kind \in {"none", "ValueError"}
        /\ r.err = NoError => StartsWith(r.value, <<"/">>)
        /\ norm.input = <<>> => (r.err = NoError /\ r.value = <<"/">>)
        /\ r.err # NoError =>
              (norm.remote[1].kind = "ValueError" /\ ~norm.remote[1].touched)
        /\ norm.second # <<>> =>
              (norm.second[1].err = NoError /\ norm.second[1].value = r.value)

C12_RejectsRawInput ==
    norm.first # <<>> =>
        /\ Contains(norm.input, <<":", "/", "/">>) => norm.first[1].err # NoError
        /\ (Contains(norm.input, <<":">>) /\ ~StartsWith(norm.input, <<"/">>))
              => norm.first[1].err # NoError
        /\ NormRest

\* C12 amended: the two rejection tests are made on the input with its
\* surrounding whitespace stripped: it is rejected when the stripped input
\* contains "://", or contains ":" and does not start with "/"; the rest as
\* stated.
C12_RejectsStrippedInput ==
    norm.first # <<>> =>
        LET value == Strip(norm.input)
        IN  /\ Contains(value, <<":", "/", "/">>) => norm.first[1].err # NoError
            /\ (Contains(value, <<":">>) /\ ~StartsWith(value, <<"/">>))
                  => norm.first[1].err # NoError
            /\ NormRest

\* An input with leading whitespace, a ":" and a "/" after the whitespace was
\* accepted, and normalising its result again was done.
C12_Witness ==
    /\ norm.second # <<>>
    /\ Contains(norm.input, <<":">>)
    /\ ~StartsWith(norm.input, <<"/">>)
    /\ norm.first[1].err = NoError
    /\ norm.first[1].value # norm.input

=============================================================================
